---- MODULE Spec2Model ----
(***************************************************************************)
(* face-recognition-trainer: the directory-to-batch pipeline               *)
(* (shared-api process_files), the CompreFace trainer / recognizer, the    *)
(* result accumulator (compreface-api train / recognize) and the two tasks *)
(* of cli main (long_task, reporting_task) joined by try_join!.            *)
(***************************************************************************)
EXTENDS Integers, Sequences, FiniteSets, TLC

(* ------------------------------ bounds -------------------------------- *)
\* entries the directory stream yields in one run (root marker included)
MaxEntries == 3
\* byte sizes of image files are drawn from 1..MaxFileSize
MaxFileSize == 2
\* max_request_size is drawn from 1..MaxBudget
MaxBudget == 2
\* failure faces handed to write_failures in one triage
MaxFaces == 2
\* a file name given to is_image is made of at most MaxPieces pieces
MaxPieces == 3
\* successes counted by one partial result given to add
MaxSuccess == 1

(* -------------------------- program constants ------------------------- *)
\* tokio::sync::mpsc::channel(2)
ChannelCapacity == 2

Modes == {"Train", "Recognize"}

\* Option<String>::None of override_trained_name
NoName == "<none>"
Overrides == {NoName, "zed"}

(* ------------------------------- paths -------------------------------- *)
\* A path component is a base name split at its final dot: "bob.v2" is
\* [stem |-> "bob", ext |-> "v2"], "alice" is [stem |-> "alice", ext |-> ""].
\* A PathBuf is the sequence of its components.
RootName == [stem |-> "ds", ext |-> ""]
dataset_path == <<RootName>>

DirExts == {"", "v2"}

\* the whole base name, as the file system shows it
NameStr(n) == IF n.ext = "" THEN n.stem ELSE n.stem \o "." \o n.ext

\* Path::parent, Path::file_name, Path::file_stem, Path::extension
parent(p) == SubSeq(p, 1, Len(p) - 1)
file_name(p) == p[Len(p)]
file_stem(p) == p[Len(p)].stem
extension(p) == p[Len(p)].ext

is_image_any_case(p) == extension(p) \in {"jpg", "jpeg", "png", "JPG", "JPEG", "PNG"}

is_image(p) == extension(p) = "jpg" \/ extension(p) = "jpeg" \/ extension(p) = "png"

(* ----------------------- file names, by character --------------------- *)
\* a file name as the sequence of its characters
RECURSIVE Str(_)
Str(cs) == IF cs = <<>> THEN "" ELSE Head(cs) \o Str(Tail(cs))

\* the position of the last dot of a name, 0 when it has none
LastDot(cs) ==
  IF \E k \in 1..Len(cs) : cs[k] = "."
  THEN CHOOSE k \in 1..Len(cs) : cs[k] = "." /\ \A j \in (k + 1)..Len(cs) : cs[j] # "."
  ELSE 0

\* Path::file_stem / Path::extension: the name is split at its last dot; a
\* name with no dot, or whose only dot is its first character, has no
\* extension
Component(cs) ==
  LET k == LastDot(cs) IN
  IF k <= 1 THEN [stem |-> Str(cs), ext |-> ""]
  ELSE [stem |-> Str(SubSeq(cs, 1, k - 1)), ext |-> Str(SubSeq(cs, k + 1, Len(cs)))]

(* ------------------------------ entries ------------------------------- *)
\* Result<PathBuf, io::Error> as yielded by RecursiveFileStream, with the
\* file-system facts the pipeline reads from it (is_dir / is_file, len).
DirEntry(p) == [kind |-> "dir", path |-> p, size |-> 0]
FileEntry(p, s) == [kind |-> "file", path |-> p, size |-> s]
ErrEntry == [kind |-> "err", path |-> <<>>, size |-> 0]
\* an entry that is neither a directory nor a regular file (a device, or a
\* link to one): is_dir() and is_file() are both false, metadata().len() is 0
OtherEntry(p) == [kind |-> "other", path |-> p, size |-> 0]

RECURSIVE CountFiles(_)
CountFiles(g) ==
  IF g = <<>> THEN 0
  ELSE (IF Head(g).kind = "file" THEN 1 ELSE 0) + CountFiles(Tail(g))

\* utils::get_directory_name
get_directory_name(g) ==
  IF g = <<>> THEN [ok |-> FALSE, val |-> "empty group"]
  ELSE IF g[1].kind = "err" THEN [ok |-> FALSE, val |-> "error"]
  ELSE IF g[1].kind = "dir" THEN [ok |-> TRUE, val |-> file_stem(g[1].path)]
  ELSE IF Len(g[1].path) < 2 THEN [ok |-> FALSE, val |-> "folder name not found"]
  ELSE [ok |-> TRUE, val |-> file_stem(parent(g[1].path))]

\* process_files: the name a group is sent under
GroupName(ovr, g) ==
  IF ovr # NoName THEN [ok |-> TRUE, val |-> ovr] ELSE get_directory_name(g)

(* ------------------------- FaceProcessingResult ----------------------- *)
with_context(c) ==
  [total_count |-> 0, success_count |-> 0, failure_count |-> 0,
   failure_faces |-> <<>>, missed_count |-> 0, missed_faces |-> <<>>,
   context |-> c]

AddDropMissed(self, other) ==
  [self EXCEPT !.total_count = @ + other.total_count,
               !.success_count = @ + other.success_count,
               !.failure_count = @ + other.failure_count,
               !.failure_faces = @ \o other.failure_faces]

AddListsInFront(self, other) ==
  [self EXCEPT !.total_count = @ + other.total_count,
               !.success_count = @ + other.success_count,
               !.failure_count = @ + other.failure_count,
               !.failure_faces = other.failure_faces \o @,
               !.missed_count = @ + other.missed_count,
               !.missed_faces = other.missed_faces \o @]

\* FaceProcessingResult::add
Add(self, other) ==
  [self EXCEPT !.total_count = @ + other.total_count,
               !.success_count = @ + other.success_count,
               !.failure_count = @ + other.failure_count,
               !.failure_faces = @ \o other.failure_faces,
               !.missed_count = @ + other.missed_count,
               !.missed_faces = @ \o other.missed_faces]

\* FailureFace::Train(path) / FailureFace::Recognize(FaceWithMetadata)
FailureTrain(p) == [tag |-> "Train", path |-> p, subjects |-> <<>>]
FailureRecognize(p, subjects) == [tag |-> "Recognize", path |-> p, subjects |-> subjects]

\* Subject { name, similarity }: similarities (and the threshold) are counted
\* in ten-thousandths, 0.93 is 9300
Subject(n, s) == [name |-> n, similarity |-> s]

\* candidate lists a no-match response can carry
CandidateLists == {<<Subject("other", 9300)>>}

(* --------------------------- ProgressReporter ------------------------- *)
NoResult == with_context(<<>>)
Increase(n) == [type |-> "Increase", n |-> n, text |-> "", result |-> NoResult]
IncreaseLength(n) == [type |-> "IncreaseLength", n |-> n, text |-> "", result |-> NoResult]
Message(t) == [type |-> "Message", n |-> 0, text |-> t, result |-> NoResult]
AccumulatedStructedMessage(r) ==
  [type |-> "AccumulatedStructedMessage", n |-> 0, text |-> "", result |-> r]
\* format!("Finish: {}", result): the Display of the result is its context
\* and its four counts
FinishWithMessage(r) ==
  [type |-> "FinishWithMessage", n |-> 0, text |-> "Finish",
   result |-> [r EXCEPT !.failure_faces = <<>>, !.missed_faces = <<>>]]

(* --------------------------- ErrorConfiguration ----------------------- *)
ErrorBehaviors == {"Copy", "Move", "Ignore"}
PostRecognizeStrategies == {"KeepAsIs", "MaxSimilarity", "AboveThreshold"}

\* above_threshold: the default 0.95, and 0.9
DefaultThreshold == 9500
AboveThresholds == {9000, DefaultThreshold}

\* a path component made of a string that holds no dot
Comp(s) == [stem |-> s, ext |-> ""]
\* the root directory, first component of an absolute path
Slash == Comp("/")

\* output_dir: Option<String>, None by default; relative or absolute
NoDir == [some |-> FALSE, path |-> <<>>]
SomeDir(p) == [some |-> TRUE, path |-> p]
OutputDirs == {NoDir, SomeDir(<<Comp("out")>>), SomeDir(<<Slash, Comp("out")>>)}

(* ------------------------------ std::path ----------------------------- *)
is_absolute(p) == p # <<>> /\ p[1] = Slash

\* PathBuf::push: an absolute argument replaces the path
push(p, q) == IF is_absolute(q) THEN q ELSE p \o q

\* PathBuf::join with a relative name
join(p, n) == push(p, <<n>>)

\* impl FromIterator<P: AsRef<Path>> for PathBuf: every item is pushed onto
\* an empty path
RECURSIVE collect_path(_, _)
collect_path(acc, items) ==
  IF items = <<>> THEN acc ELSE collect_path(push(acc, Head(items)), Tail(items))

(* ----------------------- post-recognize strategies --------------------- *)
\* (item.similarity * 1000.0) as u32: the cast truncates
similarity_key(item) == item.similarity \div 10

\* Iterator::max_by_key: the index of the maximum; of several equally
\* maximum elements the last one is returned
max_by_key(subjects) ==
  CHOOSE i \in 1..Len(subjects) :
    /\ \A j \in 1..Len(subjects) : similarity_key(subjects[j]) <= similarity_key(subjects[i])
    /\ \A j \in (i + 1)..Len(subjects) : similarity_key(subjects[j]) < similarity_key(subjects[i])

\* .filter(|item| item.similarity > config.above_threshold.unwrap())
above(subjects, threshold) == SelectSeq(subjects, LAMBDA item : item.similarity > threshold)

\* target_files of write_all_failure_faces; ok = FALSE is the bail!
TargetFilesSkipsEmpty(face, strategy, threshold, person_folder) ==
  IF face.tag = "Train" \/ strategy = "KeepAsIs"
  THEN [ok |-> TRUE, files |-> <<join(person_folder, file_name(face.path))>>]
  ELSE IF strategy = "MaxSimilarity"
  THEN IF face.subjects = <<>>
       THEN [ok |-> TRUE, files |-> <<>>]
       ELSE [ok |-> TRUE,
             files |-> <<join(person_folder, Comp(face.subjects[max_by_key(face.subjects)].name))>>]
  ELSE LET sel == above(face.subjects, threshold) IN
       [ok |-> TRUE,
        files |-> <<collect_path(<<>>, [i \in 1..Len(sel) |-> join(person_folder, Comp(sel[i].name))])>>]

TargetFiles(face, strategy, threshold, person_folder) ==
  IF face.tag = "Train" \/ strategy = "KeepAsIs"
  THEN [ok |-> TRUE, files |-> <<join(person_folder, file_name(face.path))>>]
  ELSE IF strategy = "MaxSimilarity"
  THEN IF face.subjects = <<>>
       THEN [ok |-> FALSE, files |-> <<>>]
       ELSE [ok |-> TRUE,
             files |-> <<join(person_folder, Comp(face.subjects[max_by_key(face.subjects)].name))>>]
  ELSE LET sel == above(face.subjects, threshold) IN
       [ok |-> TRUE,
        files |-> <<collect_path(<<>>, [i \in 1..Len(sel) |-> join(person_folder, Comp(sel[i].name))])>>]

(* ------------------------------ tokio::fs ----------------------------- *)
\* The file system is [dirs, files]: the set of directory paths and the set
\* of files [path, content]. The content of a file is the path it was first
\* read from, <<>> for an empty file. A one-component relative path lies in
\* the working directory, which exists, as does the root directory.
Prefixes(p) == {SubSeq(p, 1, k) : k \in 1..Len(p)}
FilePaths(f) == {x.path : x \in f.files}
IsDir(f, p) == p \in f.dirs \/ p = <<Slash>>
ContentOf(f, p) == (CHOOSE x \in f.files : x.path = p).content
WriteFile(files, p, c) == {x \in files : x.path # p} \cup {[path |-> p, content |-> c]}

\* a file can be created or replaced at p: its parent directory exists and
\* p is not a directory
CanCreate(f, p) ==
  /\ p # <<>>
  /\ Len(p) = 1 \/ IsDir(f, parent(p))
  /\ ~IsDir(f, p)

\* tokio::fs::create_dir_all: fails when a component is an existing file
create_dir_all(f, p) ==
  IF Prefixes(p) \cap FilePaths(f) = {}
  THEN [ok |-> TRUE, fs |-> [f EXCEPT !.dirs = @ \cup Prefixes(p)]]
  ELSE [ok |-> FALSE, fs |-> f]

\* tokio::fs::File::create: an empty file, truncated when it exists
File_create(f, p) ==
  IF CanCreate(f, p)
  THEN [ok |-> TRUE, fs |-> [f EXCEPT !.files = WriteFile(@, p, <<>>)]]
  ELSE [ok |-> FALSE, fs |-> f]

\* tokio::fs::copy
copy(f, from, to) ==
  IF from \in FilePaths(f) /\ CanCreate(f, to)
  THEN [ok |-> TRUE, fs |-> [f EXCEPT !.files = WriteFile(@, to, ContentOf(f, from))]]
  ELSE [ok |-> FALSE, fs |-> f]

\* tokio::fs::rename
rename(f, from, to) ==
  IF from \in FilePaths(f) /\ CanCreate(f, to)
  THEN [ok |-> TRUE,
        fs |-> [f EXCEPT !.files = WriteFile({x \in @ : x.path # from}, to, ContentOf(f, from))]]
  ELSE [ok |-> FALSE, fs |-> f]

\* tokio::fs::remove_file
remove_file(f, p) ==
  IF p \in FilePaths(f)
  THEN [ok |-> TRUE, fs |-> [f EXCEPT !.files = {x \in @ : x.path # p}]]
  ELSE [ok |-> FALSE, fs |-> f]

\* copy and rename can also fail for a reason the paths do not show (a full
\* disk, a rename across devices)
IoOutcomes == {"ok", "io_error"}

(* ------------------------------- state -------------------------------- *)
VARIABLES
  mode, max_request_size, override,   \* Configuration
  error_behavior, post_recognize_strategy, above_threshold, output_dir,  \* ErrorConfiguration
  fs,                                  \* the file system write_failures works on
  triagePc, triageStatus,              \* write_failures: position and outcome
  faceIdx, target_files, copyIdx,      \* write_all_failure_faces / write_all_missing_faces
  call, returned,                      \* a library function called on its own, and its return value
  cwd, emitted, streamEnded, seen,     \* RecursiveFileStream
  buffer,                              \* BufferUntilCondition
  groups,                              \* history: the groups BufferUntilCondition has emitted
  pc, longStatus,                      \* long_task: position and outcome
  group, groupNo, name, idx, files_content, total_size,   \* process_files
  callFiles, callIdx, partial, ret,    \* one api_action invocation
  state, result,                       \* Arc<Mutex<FaceProcessingResult>>, long_task's result
  finalIdx,
  chan,                                \* the two mpsc channels
  reportStatus, bars,                  \* reporting_task and its progress bars
  mainPc, joinResult, mainResult,      \* main
  calls, partials, sentLog, recvLog    \* history: invocations, returned partials, events

error_configuration == <<error_behavior, post_recognize_strategy, above_threshold, output_dir>>
config == <<mode, max_request_size, override, error_configuration>>
triage == <<fs, triagePc, triageStatus, faceIdx, target_files, copyIdx>>
library == <<call, returned>>
stream == <<cwd, emitted, streamEnded, seen, groups>>
groupVars == <<group, groupNo, name, idx, files_content, total_size>>
callVars == <<callFiles, callIdx, partial, ret>>
reportVars == <<reportStatus, bars, recvLog>>
mainVars == <<mainPc, joinResult, mainResult>>

vars == <<mode, max_request_size, override, cwd, emitted, streamEnded, seen, buffer,
          pc, longStatus, group, groupNo, name, idx, files_content, total_size,
          callFiles, callIdx, partial, ret, state, result, finalIdx, chan,
          reportStatus, bars, mainPc, joinResult, mainResult,
          calls, partials, sentLog, recvLog,
          error_behavior, post_recognize_strategy, above_threshold, output_dir,
          fs, triagePc, triageStatus, faceIdx, target_files, copyIdx,
          call, returned, groups>>

\* train(&config, tx_train_progress.clone()) / recognize(&config, tx_recognize_progress.clone())
PipelineChan == IF mode = "Train" THEN "train" ELSE "recognize"
\* tx_recognize_progress.send(...) after the match
FinalChan == "recognize"
\* rx_train_progress.recv() / rx_recognize_progress.recv()
ReportChan == IF mode = "Train" THEN "train" ELSE "recognize"

\* the tasks of main before they run
InitPipeline ==
  /\ cwd = <<>> /\ emitted = 0 /\ streamEnded = FALSE /\ seen = <<>>
  /\ buffer = <<>> /\ groups = <<>>
  /\ pc = "start" /\ longStatus = "running"
  /\ group = <<>> /\ groupNo = 0 /\ name = "" /\ idx = 1
  /\ files_content = <<>> /\ total_size = 0
  /\ callFiles = <<>> /\ callIdx = 1 /\ partial = NoResult /\ ret = "final"
  /\ state = with_context(dataset_path)
  /\ finalIdx = 1
  /\ chan = [c \in {"train", "recognize"} |-> <<>>]
  /\ reportStatus = "running"
  /\ bars = [pos |-> 0, len |-> 0, message |-> "starting", finished |-> FALSE,
             acc_len |-> 0, acc_pos |-> 0]
  /\ mainPc = "join" /\ joinResult = "" /\ mainResult = ""
  /\ calls = <<>> /\ partials = <<>> /\ sentLog = <<>> /\ recvLog = <<>>

\* write_failures has not been called
TriageIdle ==
  /\ fs = [dirs |-> {}, files |-> {}]
  /\ triagePc = "idle" /\ triageStatus = "running"
  /\ faceIdx = 1 /\ target_files = <<>> /\ copyIdx = 1

\* no library function is called on its own
NoCall == [fn |-> "none", input |-> <<>>]
NotReturned == [done |-> FALSE, ok |-> FALSE, val |-> <<>>]
LibraryIdle == call = NoCall /\ returned = NotReturned

\* ErrorConfiguration as clap fills it when no option is given
DefaultErrorConfiguration ==
  /\ error_behavior = "Ignore"
  /\ post_recognize_strategy = "MaxSimilarity"
  /\ above_threshold = DefaultThreshold
  /\ output_dir = NoDir

Init ==
  /\ mode \in Modes
  /\ max_request_size \in 1..MaxBudget
  /\ override \in Overrides
  /\ DefaultErrorConfiguration
  /\ InitPipeline /\ result = NoResult
  /\ TriageIdle /\ LibraryIdle

(* ------------------------------ channels ------------------------------ *)
\* Sender::send(..).await: suspends while the channel is full
Send(c, by, ev) ==
  /\ Len(chan[c]) < ChannelCapacity
  /\ chan' = [chan EXCEPT ![c] = Append(@, ev)]
  /\ sentLog' = Append(sentLog, [chan |-> c, by |-> by, ev |-> ev])

NoSend == UNCHANGED <<chan, sentLog>>

FailGoesOn(how) == pc' = "poll" /\ longStatus' = how

\* the task ends with an error (`?`) or panics; its future, and every Sender
\* it owns, is dropped
Fail(how) == pc' = "done" /\ longStatus' = how

(* ------------------------- RecursiveFileStream ------------------------ *)
\* Depth-first traversal: the next item is a child of the current directory
\* or of one of its ancestors (the traversal has left the directories in
\* between); a directory's marker comes before its children.
StreamItems ==
  IF emitted = 0
  THEN {[entry |-> DirEntry(dataset_path), cwd |-> dataset_path],
        [entry |-> ErrEntry, cwd |-> <<>>]}
  ELSE UNION {
    LET base == SubSeq(cwd, 1, k) IN
      {[entry |-> DirEntry(Append(base, [stem |-> "d" \o ToString(emitted), ext |-> e])),
        cwd |-> Append(base, [stem |-> "d" \o ToString(emitted), ext |-> e])]
         : e \in DirExts}
      \cup
      {[entry |-> FileEntry(Append(base, [stem |-> "f" \o ToString(emitted), ext |-> "jpg"]), n),
        cwd |-> base] : n \in 1..MaxFileSize}
      \cup
      {[entry |-> FileEntry(Append(base, [stem |-> "f" \o ToString(emitted), ext |-> "txt"]), 1),
        cwd |-> base]}
      \cup
      {[entry |-> OtherEntry(Append(base, [stem |-> "f" \o ToString(emitted), ext |-> "jpg"])),
        cwd |-> base]}
      \cup
      {[entry |-> ErrEntry, cwd |-> base]}
    : k \in 1..Len(cwd)}

(* ----------------------------- process_files -------------------------- *)
\* tx.send(Message("Start processing directory: ..")), then the streams are built
ProcessStart ==
  /\ pc = "start"
  /\ Send(PipelineChan, "process_files", Message("Start processing directory"))
  /\ pc' = "poll"
  /\ UNCHANGED <<config, library, triage, stream, buffer, longStatus, groupVars, callVars, state, result,
                 finalIdx, reportVars, mainVars, calls, partials>>

is_boundary_never(entry) == FALSE

\* the boundary predicate given to BufferUntilCondition::new:
\* |path| path.as_ref().unwrap().is_dir()
is_boundary(entry) == entry.kind = "dir"

\* files_groups.next(): BufferUntilCondition takes one item of the stream.
\* The boundary predicate unwraps the item, so an error item panics; whether
\* the predicate is evaluated while the buffer is empty is not fixed.
PollEntry ==
  /\ pc = "poll" /\ ~streamEnded /\ emitted < MaxEntries
  /\ \E it \in StreamItems :
       /\ cwd' = it.cwd /\ emitted' = emitted + 1 /\ seen' = Append(seen, it.entry)
       /\ UNCHANGED streamEnded
       /\ \/ /\ it.entry.kind = "err"
             /\ Fail("Panic")
             /\ UNCHANGED <<buffer, group, groupNo, idx, groups>>
          \/ /\ it.entry.kind = "err" /\ buffer = <<>>
             /\ buffer' = <<it.entry>>
             /\ UNCHANGED <<pc, longStatus, group, groupNo, idx, groups>>
          \/ /\ it.entry.kind # "err" /\ is_boundary(it.entry) /\ buffer # <<>>
             /\ group' = buffer /\ buffer' = <<it.entry>>
             /\ groups' = Append(groups, buffer)
             /\ groupNo' = groupNo + 1 /\ idx' = 1
             /\ pc' = "group" /\ UNCHANGED longStatus
          \/ /\ it.entry.kind # "err" /\ (~is_boundary(it.entry) \/ buffer = <<>>)
             /\ buffer' = Append(buffer, it.entry)
             /\ UNCHANGED <<pc, longStatus, group, groupNo, idx, groups>>
  /\ NoSend
  /\ UNCHANGED <<config, library, triage, name, files_content, total_size, callVars, state, result,
                 finalIdx, reportVars, mainVars, calls, partials>>

\* the stream ends (the root comes first, so not before its first item): the pending buffer is flushed as the last group; with
\* nothing pending next() is None, process_files returns Ok and train /
\* recognize return the accumulated state
PollEnd ==
  /\ pc = "poll" /\ emitted > 0
  /\ streamEnded' = TRUE
  /\ IF buffer # <<>>
     THEN /\ group' = buffer /\ buffer' = <<>>
          /\ groups' = Append(groups, buffer)
          /\ groupNo' = groupNo + 1 /\ idx' = 1
          /\ pc' = "group" /\ UNCHANGED result
     ELSE /\ result' = state /\ pc' = "final"
          /\ UNCHANGED <<buffer, group, groupNo, idx, groups>>
  /\ NoSend
  /\ UNCHANGED <<config, library, triage, cwd, emitted, seen, longStatus, name, files_content, total_size,
                 callVars, state, finalIdx, reportVars, mainVars, calls, partials>>

\* the group's name, then IncreaseLength(files_count)
GroupStart ==
  /\ pc = "group"
  /\ LET nm == GroupName(override, group) IN
       IF ~nm.ok
       THEN /\ Fail("Err") /\ NoSend
            /\ UNCHANGED <<name, files_content, total_size>>
       ELSE /\ Send(PipelineChan, "process_files", IncreaseLength(CountFiles(group)))
            /\ name' = nm.val /\ files_content' = <<>> /\ total_size' = 0
            /\ pc' = "groupmsg" /\ UNCHANGED longStatus
  /\ UNCHANGED <<config, library, triage, stream, buffer, group, groupNo, idx, callVars, state, result,
                 finalIdx, reportVars, mainVars, calls, partials>>

\* Message("processing directory: <name>")
GroupMessage ==
  /\ pc = "groupmsg"
  /\ Send(PipelineChan, "process_files", Message("processing directory: " \o name))
  /\ pc' = "loop"
  /\ UNCHANGED <<config, library, triage, stream, buffer, longStatus, groupVars, callVars, state, result,
                 finalIdx, reportVars, mainVars, calls, partials>>

NeedsFlushFileOnly(total, file_len, max) == file_len > max

NeedsFlushAtBudget(total, file_len, max) == total + file_len >= max

\* if total_size + file_len > config.max_request_size
NeedsFlush(total, file_len, max) == total + file_len > max

ClearedContentKept(content) == content

\* files_content.clear()
ClearedContent(content) == <<>>

\* api_action(name, files, tx): the closure of train / recognize calls
\* send_to_train / recognize, which start with files.first().unwrap()
Invoke(files, r) ==
  /\ calls' = Append(calls, [name |-> name, files |-> files, grp |-> groupNo])
  /\ IF files = <<>>
     THEN /\ Fail("Panic")
          /\ UNCHANGED callVars
     ELSE /\ callFiles' = files /\ callIdx' = 1 /\ ret' = r
          /\ partial' = IF mode = "Train"
                        THEN [with_context(parent(files[1])) EXCEPT !.total_count = Len(files)]
                        ELSE with_context(parent(files[1]))
          /\ pc' = "api" /\ UNCHANGED longStatus

\* for path in group.into_iter(): an error item (`path?`)
LoopError ==
  /\ pc = "loop" /\ idx <= Len(group) /\ group[idx].kind = "err"
  /\ Fail("Err") /\ NoSend
  /\ UNCHANGED <<config, library, triage, stream, buffer, groupVars, callVars, state, result,
                 finalIdx, reportVars, mainVars, calls, partials>>

\* a directory marker: Message(file_stem)
LoopDirectory ==
  /\ pc = "loop" /\ idx <= Len(group) /\ group[idx].kind = "dir"
  /\ Send(PipelineChan, "process_files", Message(file_stem(group[idx].path)))
  /\ idx' = idx + 1
  /\ UNCHANGED <<config, library, triage, stream, buffer, pc, longStatus, group, groupNo, name,
                 files_content, total_size, callVars, state, result,
                 finalIdx, reportVars, mainVars, calls, partials>>

\* a file that is not an image is skipped
LoopSkip ==
  /\ pc = "loop" /\ idx <= Len(group) /\ group[idx].kind \in {"file", "other"}
  /\ ~is_image(group[idx].path)
  /\ idx' = idx + 1 /\ NoSend
  /\ UNCHANGED <<config, library, triage, stream, buffer, pc, longStatus, group, groupNo, name,
                 files_content, total_size, callVars, state, result,
                 finalIdx, reportVars, mainVars, calls, partials>>

\* an image: its length is read; the pending files are sent first when the
\* file does not fit, otherwise the file is added to them
LoopImage ==
  /\ pc = "loop" /\ idx <= Len(group) /\ group[idx].kind \in {"file", "other"}
  /\ is_image(group[idx].path)
  /\ NoSend
  /\ IF NeedsFlush(total_size, group[idx].size, max_request_size)
     THEN /\ Invoke(files_content, "flush")
          /\ UNCHANGED <<idx, files_content, total_size>>
     ELSE /\ total_size' = total_size + group[idx].size
          /\ files_content' = Append(files_content, group[idx].path)
          /\ idx' = idx + 1
          /\ UNCHANGED <<pc, longStatus, callVars, calls>>
  /\ UNCHANGED <<config, library, triage, stream, buffer, group, groupNo, name, state, result,
                 finalIdx, reportVars, mainVars, partials>>

\* fs::metadata(path).await? fails
LoopMetadataError ==
  /\ pc = "loop" /\ idx <= Len(group) /\ group[idx].kind \in {"file", "other"}
  /\ is_image(group[idx].path)
  /\ Fail("Err") /\ NoSend
  /\ UNCHANGED <<config, library, triage, stream, buffer, groupVars, callVars, state, result,
                 finalIdx, reportVars, mainVars, calls, partials>>

\* after the loop: if !files_content.is_empty() the rest is sent
GroupEnd ==
  /\ pc = "loop" /\ idx > Len(group)
  /\ NoSend
  /\ IF files_content # <<>>
     THEN Invoke(files_content, "final")
     ELSE pc' = "poll" /\ UNCHANGED <<longStatus, callVars, calls>>
  /\ UNCHANGED <<config, library, triage, stream, buffer, groupVars, state, result,
                 finalIdx, reportVars, mainVars, partials>>

(* ------------------- CompreFaceClient: one file of a call ------------- *)
TrainOutcomes == {"accepted", "rejected", "transport", "io_error", "text_error"}
RecognizeOutcomes == {"match", "nomatch", "transport", "parse", "io_error"}

TrainFileMissedNotListed(p, f, o) ==
  CASE o = "transport" -> [p EXCEPT !.missed_count = @ + 1]
    [] o = "accepted" -> [p EXCEPT !.success_count = @ + 1]
    [] o = "rejected" -> [p EXCEPT !.failure_count = @ + 1,
                                    !.failure_faces = Append(@, FailureTrain(f))]
    [] OTHER -> p

\* send_to_train: the counts after one file
TrainFile(p, f, o) ==
  CASE o = "transport" -> [p EXCEPT !.missed_count = @ + 1, !.missed_faces = Append(@, f)]
    [] o = "accepted" -> [p EXCEPT !.success_count = @ + 1]
    [] o = "rejected" -> [p EXCEPT !.failure_count = @ + 1,
                                    !.failure_faces = Append(@, FailureTrain(f))]
    [] OTHER -> p

\* send_to_train sends Increase(1) once the request got a response
TrainTicks(o) == o \in {"accepted", "rejected", "text_error"}

\* recognize: the counts after one file
RecognizeFile(p, f, o, subjects) ==
  LET q == [p EXCEPT !.total_count = @ + 1] IN
  CASE o \in {"transport", "parse"} ->
         [q EXCEPT !.missed_count = @ + 1, !.missed_faces = Append(@, f)]
    [] o = "match" -> [q EXCEPT !.success_count = @ + 1]
    [] o = "nomatch" -> [q EXCEPT !.failure_count = @ + 1,
                                   !.failure_faces = Append(@, FailureRecognize(f, subjects))]
    [] OTHER -> q

RecognizeTicksAnswered(o) == o \in {"match", "nomatch"}

\* recognize sends Increase(1) for every file it got through
RecognizeTicks(o) == o # "io_error"

\* the call returns Ok(recognition_result) after its last file
FileDone(p) ==
  /\ callIdx' = callIdx + 1
  /\ partial' = p
  /\ IF callIdx = Len(callFiles)
     THEN pc' = "merge" /\ partials' = Append(partials, p)
     ELSE UNCHANGED <<pc, partials>>
  /\ UNCHANGED <<longStatus, callFiles, ret>>

SendToTrainFile ==
  /\ pc = "api" /\ mode = "Train" /\ callIdx <= Len(callFiles)
  /\ \E o \in TrainOutcomes :
       /\ IF TrainTicks(o) THEN Send(PipelineChan, "api", Increase(1)) ELSE NoSend
       /\ IF o \in {"io_error", "text_error"}
          THEN Fail("Err") /\ UNCHANGED <<callVars, partials>>
          ELSE FileDone(TrainFile(partial, callFiles[callIdx], o))
  /\ UNCHANGED <<config, library, triage, stream, buffer, groupVars, state, result,
                 finalIdx, reportVars, mainVars, calls>>

RecognizeOneFile ==
  /\ pc = "api" /\ mode = "Recognize" /\ callIdx <= Len(callFiles)
  /\ \E o \in RecognizeOutcomes :
       /\ IF RecognizeTicks(o) THEN Send(PipelineChan, "api", Increase(1)) ELSE NoSend
       /\ IF o = "io_error"
          THEN Fail("Err") /\ UNCHANGED <<callVars, partials>>
          ELSE \E subjects \in (IF o = "nomatch" THEN CandidateLists ELSE {<<>>}) :
                 FileDone(RecognizeFile(partial, callFiles[callIdx], o, subjects))
  /\ UNCHANGED <<config, library, triage, stream, buffer, groupVars, state, result,
                 finalIdx, reportVars, mainVars, calls>>

(* ------------------- train / recognize: the accumulator --------------- *)
AccumulatedReportPartial(st, p) == p

\* guard.add(partial_result); let report = guard.clone()
AccumulatedReport(st, p) == Add(st, p)

\* guard.add(partial_result); the report is a clone of the guarded state
\* and is sent as AccumulatedStructedMessage. The closure returns Ok and
\* process_files goes on: after a flush with the file that did not fit,
\* after the last call of a group with the next group.
MergeAndReport ==
  /\ pc = "merge"
  /\ state' = Add(state, partial)
  /\ Send(PipelineChan, "closure",
          AccumulatedStructedMessage(AccumulatedReport(state, partial)))
  /\ IF ret = "flush"
     THEN /\ files_content' = Append(ClearedContent(files_content), group[idx].path)
          /\ total_size' = group[idx].size
          /\ idx' = idx + 1
          /\ pc' = "loop"
     ELSE /\ pc' = "poll"
          /\ UNCHANGED <<idx, files_content, total_size>>
  /\ UNCHANGED <<config, library, triage, stream, buffer, longStatus, group, groupNo, name, callVars,
                 result, finalIdx, reportVars, mainVars, calls, partials>>

(* ------------------------------ long_task ----------------------------- *)
FinalEventsFinishFirst(r) == <<FinishWithMessage(r), AccumulatedStructedMessage(r)>>

\* the two sends that follow train / recognize
FinalEvents(r) == <<AccumulatedStructedMessage(r), FinishWithMessage(r)>>

\* after the second send the task returns Ok(()) and drops its senders
LongFinal ==
  /\ pc = "final"
  /\ Send(FinalChan, "main", FinalEvents(result)[finalIdx])
  /\ finalIdx' = finalIdx + 1
  /\ IF finalIdx = Len(FinalEvents(result))
     THEN pc' = "done" /\ longStatus' = "Ok"
     ELSE UNCHANGED <<pc, longStatus>>
  /\ UNCHANGED <<config, library, triage, stream, buffer, groupVars, callVars, state, result,
                 reportVars, mainVars, calls, partials>>

(* ---------------------------- reporting_task -------------------------- *)
\* on_progress
on_progress(ev, b) ==
  CASE ev.type = "Increase" -> [b EXCEPT !.pos = @ + ev.n]
    [] ev.type = "IncreaseLength" -> [b EXCEPT !.len = @ + ev.n]
    [] ev.type = "Message" -> [b EXCEPT !.message = ev.text]
    [] ev.type = "FinishWithMessage" -> [b EXCEPT !.message = ev.text, !.finished = TRUE]
    [] ev.type = "AccumulatedStructedMessage" ->
         [b EXCEPT !.acc_len = ev.result.total_count, !.acc_pos = ev.result.success_count]
    [] OTHER -> b

\* while let Some(progress_report) = rx.recv().await
ReportReceive ==
  /\ reportStatus = "running"
  /\ chan[ReportChan] # <<>>
  /\ bars' = on_progress(Head(chan[ReportChan]), bars)
  /\ recvLog' = Append(recvLog, Head(chan[ReportChan]))
  /\ chan' = [chan EXCEPT ![ReportChan] = Tail(@)]
  /\ UNCHANGED <<config, library, triage, stream, buffer, pc, longStatus, groupVars, callVars, state,
                 result, finalIdx, reportStatus, mainVars, calls, partials, sentLog>>

\* recv() is None once the channel is empty and every Sender is dropped:
\* the senders all live in long_task's future
ReportExit ==
  /\ reportStatus = "running"
  /\ chan[ReportChan] = <<>>
  /\ longStatus # "running"
  /\ reportStatus' = "Ok"
  /\ UNCHANGED <<config, library, triage, stream, buffer, pc, longStatus, groupVars, callVars, state,
                 result, finalIdx, bars, recvLog, mainVars, calls, partials, chan, sentLog>>

(* --------------------------------- main ------------------------------- *)
\* flatten: the outcome of a joined task
flatten(status) == IF status = "Ok" THEN "Ok" ELSE "Err"

\* tokio::try_join!(flatten(long_task), flatten(reporting_task)): Err as soon
\* as one of the two is Err, Ok when both are Ok
MainJoin ==
  /\ mainPc = "join"
  /\ \/ /\ longStatus # "running" /\ flatten(longStatus) = "Err"
        /\ joinResult' = "Err"
     \/ /\ reportStatus \notin {"running", "Ok"}
        /\ joinResult' = "Err"
     \/ /\ longStatus = "Ok" /\ reportStatus = "Ok"
        /\ joinResult' = "Ok"
  /\ mainPc' = "joined"
  /\ UNCHANGED <<config, library, triage, stream, buffer, pc, longStatus, groupVars, callVars, state,
                 result, finalIdx, reportVars, mainResult, calls, partials, chan, sentLog>>

\* the match on the join result logs either way; main then returns Ok(())
MainOutcome(joined) == "Ok"

\* main returns; the runtime is dropped and a task still running is cancelled
MainReturn ==
  /\ mainPc = "joined"
  /\ mainResult' = MainOutcome(joinResult)
  /\ mainPc' = "returned"
  /\ reportStatus' = IF reportStatus = "running" THEN "Cancelled" ELSE reportStatus
  /\ UNCHANGED <<config, library, triage, stream, buffer, pc, longStatus, groupVars, callVars, state,
                 result, finalIdx, bars, recvLog, joinResult, calls, partials, chan, sentLog>>

Next ==
  \/ ProcessStart \/ PollEntry \/ PollEnd \/ GroupStart \/ GroupMessage
  \/ LoopError \/ LoopDirectory \/ LoopSkip \/ LoopImage \/ LoopMetadataError \/ GroupEnd
  \/ SendToTrainFile \/ RecognizeOneFile \/ MergeAndReport \/ LongFinal
  \/ ReportReceive \/ ReportExit \/ MainJoin \/ MainReturn

Spec == Init /\ [][Next]_vars

\* the runtime runs every task that can take a step: the run does not stop
\* while a task is runnable, whatever the order the tasks are polled in
SpecFair == Init /\ [][Next]_vars /\ WF_vars(Next)

(* ============================ write_failures =========================== *)
pipeline == <<stream, buffer, pc, longStatus, groupVars, callVars, state, finalIdx,
              reportVars, mainVars, calls, partials, chan, sentLog>>

\* the task ends with an error (`?`, bail!) or a panic (unwrap of None) at
\* the step it is in
TriageFail(how) == triageStatus' = how /\ UNCHANGED triagePc
TriageDone == triagePc' = "done" /\ triageStatus' = "Ok"

\* PathBuf::from(config.output_dir.as_ref().unwrap()).join(..)
sub_folder(kind) == join(output_dir.path, Comp(kind))
\* sub_folder.join(path.parent().unwrap().file_stem().unwrap())
person_folder(sub, path) == join(sub, Comp(file_stem(parent(path))))
\* person_folder.join(file_name).join(".original_name")
original_name(folder, path) == join(join(folder, file_name(path)), Comp(".original_name"))

\* the face / the missed file the loop is at
failure_face == result.failure_faces[faceIdx]
missed_path == result.missed_faces[faceIdx]
FacesFolder == person_folder(sub_folder("failure_faces"), failure_face.path)
MissedFolder == person_folder(sub_folder("missed_faces"), missed_path)

WriteFailures ==
  /\ triagePc = "write_failures" /\ triageStatus = "running"
  /\ IF error_behavior = "Ignore" THEN TriageDone
     ELSE IF result.failure_count > 0
          THEN triagePc' = "failure_faces" /\ UNCHANGED triageStatus
     ELSE IF result.missed_count > 0
          THEN triagePc' = "missing_faces" /\ UNCHANGED triageStatus
     ELSE TriageDone
  /\ UNCHANGED <<config, library, pipeline, result, fs, faceIdx, target_files, copyIdx>>

\* write_all_failure_faces returned Ok: write_failures goes on
AfterFailureFaces ==
  IF result.missed_count > 0
  THEN triagePc' = "missing_faces" /\ UNCHANGED triageStatus
  ELSE TriageDone

\* the end of the loop body: the next face, or the end of the loop
NextFace ==
  /\ faceIdx' = faceIdx + 1
  /\ IF faceIdx < Len(result.failure_faces)
     THEN triagePc' = "person_folder" /\ UNCHANGED triageStatus
     ELSE AfterFailureFaces

FailureFacesStart ==
  /\ triagePc = "failure_faces" /\ triageStatus = "running"
  /\ IF ~output_dir.some
     THEN TriageFail("Panic") /\ UNCHANGED <<fs, faceIdx>>
     ELSE LET r == create_dir_all(fs, sub_folder("failure_faces")) IN
          IF ~r.ok THEN TriageFail("Err") /\ UNCHANGED <<fs, faceIdx>>
          ELSE /\ fs' = r.fs /\ faceIdx' = 1
               /\ IF result.failure_faces = <<>> THEN AfterFailureFaces
                  ELSE triagePc' = "person_folder" /\ UNCHANGED triageStatus
  /\ UNCHANGED <<config, library, pipeline, result, target_files, copyIdx>>

FacePersonFolder ==
  /\ triagePc = "person_folder" /\ triageStatus = "running"
  /\ LET r == create_dir_all(fs, FacesFolder) IN
       IF r.ok THEN fs' = r.fs /\ triagePc' = "original_name" /\ UNCHANGED triageStatus
       ELSE TriageFail("Err") /\ UNCHANGED fs
  /\ UNCHANGED <<config, library, pipeline, result, faceIdx, target_files, copyIdx>>

FaceOriginalName ==
  /\ triagePc = "original_name" /\ triageStatus = "running"
  /\ LET r == File_create(fs, original_name(FacesFolder, failure_face.path)) IN
       IF r.ok THEN fs' = r.fs /\ triagePc' = "target_files" /\ UNCHANGED triageStatus
       ELSE TriageFail("Err") /\ UNCHANGED fs
  /\ UNCHANGED <<config, library, pipeline, result, faceIdx, target_files, copyIdx>>

FaceTargets ==
  /\ triagePc = "target_files" /\ triageStatus = "running"
  /\ LET t == TargetFiles(failure_face, post_recognize_strategy, above_threshold, FacesFolder) IN
       IF t.ok
       THEN /\ target_files' = t.files /\ copyIdx' = 1
            /\ triagePc' = "place" /\ UNCHANGED triageStatus
       ELSE TriageFail("Err") /\ UNCHANGED <<target_files, copyIdx>>
  /\ UNCHANGED <<config, library, pipeline, result, fs, faceIdx>>

\* if target_files.len() == 1 && config.error_behavior == ErrorBehavior::Move
MovesByRename(targets, behavior) == Len(targets) = 1 /\ behavior = "Move"

FaceRename ==
  /\ triagePc = "place" /\ triageStatus = "running"
  /\ MovesByRename(target_files, error_behavior)
  /\ \E io \in IoOutcomes :
       LET r == rename(fs, failure_face.path, target_files[1]) IN
         IF io = "ok" /\ r.ok THEN fs' = r.fs /\ NextFace
         ELSE TriageFail("Err") /\ UNCHANGED <<fs, faceIdx>>
  /\ UNCHANGED <<config, library, pipeline, result, target_files, copyIdx>>

FaceCopy ==
  /\ triagePc = "place" /\ triageStatus = "running"
  /\ ~MovesByRename(target_files, error_behavior)
  /\ copyIdx <= Len(target_files)
  /\ \E io \in IoOutcomes :
       LET r == copy(fs, failure_face.path, target_files[copyIdx]) IN
         IF io = "ok" /\ r.ok
         THEN fs' = r.fs /\ copyIdx' = copyIdx + 1 /\ UNCHANGED <<triagePc, triageStatus>>
         ELSE TriageFail("Err") /\ UNCHANGED <<fs, copyIdx>>
  /\ UNCHANGED <<config, library, pipeline, result, faceIdx, target_files>>

\* after the copies: the source is removed when the behaviour is Move
FaceCopied ==
  /\ triagePc = "place" /\ triageStatus = "running"
  /\ ~MovesByRename(target_files, error_behavior)
  /\ copyIdx > Len(target_files)
  /\ IF error_behavior = "Move"
     THEN LET r == remove_file(fs, failure_face.path) IN
            IF r.ok THEN fs' = r.fs /\ NextFace
            ELSE TriageFail("Err") /\ UNCHANGED <<fs, faceIdx>>
     ELSE NextFace /\ UNCHANGED fs
  /\ UNCHANGED <<config, library, pipeline, result, target_files, copyIdx>>

MissingFacesStart ==
  /\ triagePc = "missing_faces" /\ triageStatus = "running"
  /\ IF ~output_dir.some
     THEN TriageFail("Panic") /\ UNCHANGED <<fs, faceIdx>>
     ELSE LET r == create_dir_all(fs, sub_folder("missed_faces")) IN
          IF ~r.ok THEN TriageFail("Err") /\ UNCHANGED <<fs, faceIdx>>
          ELSE /\ fs' = r.fs /\ faceIdx' = 1
               /\ IF result.missed_faces = <<>> THEN TriageDone
                  ELSE triagePc' = "missed_folder" /\ UNCHANGED triageStatus
  /\ UNCHANGED <<config, library, pipeline, result, target_files, copyIdx>>

MissedPersonFolder ==
  /\ triagePc = "missed_folder" /\ triageStatus = "running"
  /\ LET r == create_dir_all(fs, MissedFolder) IN
       IF r.ok THEN fs' = r.fs /\ triagePc' = "missed_place" /\ UNCHANGED triageStatus
       ELSE TriageFail("Err") /\ UNCHANGED fs
  /\ UNCHANGED <<config, library, pipeline, result, faceIdx, target_files, copyIdx>>

\* match config.error_behavior: Copy copies, Move renames (Ignore has
\* returned from write_failures already)
MissedPlace ==
  /\ triagePc = "missed_place" /\ triageStatus = "running"
  /\ \E io \in IoOutcomes :
       LET new_path == join(MissedFolder, file_name(missed_path))
           r == IF error_behavior = "Copy" THEN copy(fs, missed_path, new_path)
                ELSE IF error_behavior = "Move" THEN rename(fs, missed_path, new_path)
                ELSE [ok |-> TRUE, fs |-> fs]
       IN IF io = "ok" /\ r.ok
          THEN /\ fs' = r.fs /\ faceIdx' = faceIdx + 1
               /\ IF faceIdx < Len(result.missed_faces)
                  THEN triagePc' = "missed_folder" /\ UNCHANGED triageStatus
                  ELSE TriageDone
          ELSE TriageFail("Err") /\ UNCHANGED <<fs, faceIdx>>
  /\ UNCHANGED <<config, library, pipeline, result, target_files, copyIdx>>

(* ------------------------ the inputs of a triage ----------------------- *)
\* the files of the dataset that failed or were missed, all of one subject
SubjectFolder == join(dataset_path, Comp("alice"))
FacePath(i) == join(SubjectFolder, [stem |-> "a" \o ToString(i), ext |-> "jpg"])
MissedPath == join(SubjectFolder, [stem |-> "m1", ext |-> "jpg"])

\* the candidate lists of the failure faces of a recognize run
TriageCandidateLists ==
  {<<>>,
   <<Subject("A", 9100), Subject("B", 9300), Subject("C", 9300)>>,
   <<Subject("A", 9100), Subject("B", 6000), Subject("C", 9300)>>}

\* the failure faces a run in mode m can end with
FaceLists(m) ==
  UNION {{[i \in 1..n |-> IF m = "Train" THEN FailureTrain(FacePath(i))
                           ELSE FailureRecognize(FacePath(i), cs[i])]
            : cs \in [1..n -> TriageCandidateLists]} : n \in 0..MaxFaces}

\* the result write_failures is handed: its counts are the lengths of its lists
TriageResult(ff, mf) ==
  [with_context(dataset_path) EXCEPT
     !.total_count = Len(ff) + Len(mf),
     !.failure_count = Len(ff), !.failure_faces = ff,
     !.missed_count = Len(mf), !.missed_faces = mf]

\* the file system before the triage: the dataset files, and possibly, in
\* the output tree, directories named after the first k failed files
TriageFs(ff, mf, k) ==
  [dirs |-> Prefixes(SubjectFolder) \cup
            UNION {Prefixes(join(person_folder(sub_folder("failure_faces"), ff[i].path),
                                 file_name(ff[i].path))) : i \in 1..k},
   files |-> {[path |-> ff[i].path, content |-> ff[i].path] : i \in 1..Len(ff)} \cup
             {[path |-> mf[i], content |-> mf[i]] : i \in 1..Len(mf)}]

InitTriage ==
  /\ mode \in Modes
  /\ max_request_size = 1 /\ override = NoName
  /\ error_behavior \in ErrorBehaviors
  /\ post_recognize_strategy \in PostRecognizeStrategies
  /\ above_threshold \in AboveThresholds
  /\ output_dir \in OutputDirs
  /\ InitPipeline
  /\ \E ff \in FaceLists(mode), mf \in {<<>>, <<MissedPath>>} :
       /\ result = TriageResult(ff, mf)
       /\ \E k \in 0..(IF output_dir.some THEN Len(ff) ELSE 0) : fs = TriageFs(ff, mf, k)
  /\ triagePc = "write_failures" /\ triageStatus = "running"
  /\ faceIdx = 1 /\ target_files = <<>> /\ copyIdx = 1
  /\ LibraryIdle

NextTriage ==
  \/ WriteFailures \/ FailureFacesStart \/ FacePersonFolder \/ FaceOriginalName
  \/ FaceTargets \/ FaceRename \/ FaceCopy \/ FaceCopied
  \/ MissingFacesStart \/ MissedPersonFolder \/ MissedPlace

SpecTriage == InitTriage /\ [][NextTriage]_vars

\* the run under any error behaviour given on the command line
InitAnyErrorBehavior ==
  /\ mode \in Modes
  /\ max_request_size \in 1..MaxBudget
  /\ override \in Overrides
  /\ error_behavior \in ErrorBehaviors
  /\ post_recognize_strategy = "MaxSimilarity"
  /\ above_threshold = DefaultThreshold
  /\ output_dir = SomeDir(<<Comp("out")>>)
  /\ InitPipeline /\ result = NoResult
  /\ TriageIdle /\ LibraryIdle

SpecAnyErrorBehavior == InitAnyErrorBehavior /\ [][Next]_vars

(* ================== library functions called on their own ============== *)
Return(v) == returned' = [done |-> TRUE, ok |-> TRUE, val |-> v]
ReturnErr(e) == returned' = [done |-> TRUE, ok |-> FALSE, val |-> e]

\* the pieces file names are made of
NamePieces ==
  {<<".">>, <<"a">>, <<"j", "p", "g">>, <<".", "j", "p", "g">>, <<".", "j", "p", "e", "g">>,
   <<".", "p", "n", "g">>, <<".", "J", "P", "G">>, <<".", "t", "x", "t">>}

RECURSIVE NamesOf(_)
NamesOf(n) ==
  IF n = 0 THEN {<<>>}
  ELSE LET shorter == NamesOf(n - 1) IN
       shorter \cup {x \o y : x \in shorter, y \in NamePieces}

\* is_image(Path::new(name))
IsImageCalls == {[fn |-> "is_image", input |-> cs] : cs \in NamesOf(MaxPieces) \ {<<>>}}

IsImageCall ==
  /\ call.fn = "is_image" /\ ~returned.done
  /\ Return(is_image(<<Component(call.input)>>))
  /\ UNCHANGED <<config, pipeline, result, triage, call>>

\* the groups get_directory_name can be given: empty, led by an I/O error,
\* by a directory marker or by a file, under folders with and without a dot
NamedFolders == {join(dataset_path, [stem |-> "bob", ext |-> e]) : e \in DirExts}
NamedGroups ==
  {<<>>, <<ErrEntry>>, <<FileEntry(<<[stem |-> "a", ext |-> "jpg"]>>, 1)>>}
  \cup {<<DirEntry(d)>> : d \in NamedFolders}
  \cup {<<DirEntry(d), FileEntry(join(d, [stem |-> "a", ext |-> "jpg"]), 1)>> : d \in NamedFolders}
  \cup {<<FileEntry(join(d, [stem |-> "a", ext |-> "jpg"]), 1)>> : d \in NamedFolders}

\* process_files: override_trained_name or get_directory_name(&group)
GroupNameCalls ==
  {[fn |-> "group_name", input |-> [override |-> o, group |-> g]]
     : o \in Overrides, g \in NamedGroups}

GroupNameCall ==
  /\ call.fn = "group_name" /\ ~returned.done
  /\ LET r == GroupName(call.input.override, call.input.group) IN
       IF r.ok THEN Return(r.val) ELSE ReturnErr(r.val)
  /\ UNCHANGED <<config, pipeline, result, triage, call>>

\* the partial results a remote call on batch i can return: some successes,
\* at most one failure and at most one missed file
PartialResults(i) ==
  {[with_context(dataset_path) EXCEPT
      !.total_count = sc + Len(ff) + Len(mf), !.success_count = sc,
      !.failure_count = Len(ff), !.failure_faces = ff,
      !.missed_count = Len(mf), !.missed_faces = mf]
     : sc \in 0..MaxSuccess,
       ff \in {<<>>, <<FailureTrain(join(dataset_path, [stem |-> "f" \o ToString(i), ext |-> "jpg"]))>>},
       mf \in {<<>>, <<join(dataset_path, [stem |-> "m" \o ToString(i), ext |-> "jpg"])>>}}

\* guard.add(partial_result) for three partial results in a row
AddCalls ==
  {[fn |-> "add", input |-> <<a, b, c>>]
     : a \in PartialResults(1), b \in PartialResults(2), c \in PartialResults(3)}

RECURSIVE AddAll(_, _)
AddAll(acc, ps) == IF ps = <<>> THEN acc ELSE AddAll(Add(acc, Head(ps)), Tail(ps))

AddCall ==
  /\ call.fn = "add" /\ ~returned.done
  /\ Return(AddAll(with_context(dataset_path), call.input))
  /\ UNCHANGED <<config, pipeline, result, triage, call>>

InitLibrary ==
  /\ mode = "Recognize" /\ max_request_size = 1 /\ override = NoName
  /\ DefaultErrorConfiguration
  /\ InitPipeline /\ result = NoResult
  /\ TriageIdle
  /\ \/ call \in IsImageCalls
     \/ call \in GroupNameCalls
     \/ call \in AddCalls
  /\ returned = NotReturned

NextLibrary == IsImageCall \/ GroupNameCall \/ AddCall

SpecLibrary == InitLibrary /\ [][NextLibrary]_vars

(* =============================== claims =============================== *)
RECURSIVE Flatten(_)
Flatten(ss) == IF ss = <<>> THEN <<>> ELSE Head(ss) \o Flatten(Tail(ss))

RECURSIVE SumSeq(_)
SumSeq(ns) == IF ns = <<>> THEN 0 ELSE Head(ns) + SumSeq(Tail(ns))

IsImageEntry(e) == e.kind \in {"file", "other"} /\ e.path[Len(e.path)].ext \in {"jpg", "jpeg", "png"}

\* the paths of the image files of a group, in the group's order
ImageFilesOf(g) == LET im == SelectSeq(g, IsImageEntry) IN [i \in 1..Len(im) |-> im[i].path]

\* the file lists of the invocations made for group k, in invocation order
CallsOf(k) ==
  LET cs == SelectSeq(calls, LAMBDA c : c.grp = k) IN [i \in 1..Len(cs) |-> cs[i].files]

\* the byte size the file system holds for a path the stream yielded
SizeOf(p) == seen[CHOOSE j \in 1..Len(seen) : seen[j].path = p].size

\* the summed byte size of a batch
BatchSize(files) == SumSeq([i \in 1..Len(files) |-> SizeOf(files[i])])

\* the group in hand has been processed to its end and every call returned Ok
GroupComplete == groupNo > 0 /\ (pc \in {"poll", "final"} \/ longStatus = "Ok")

\* C1: when every remote call of a group returned Ok, the file lists passed
\* to the remote action for the group, concatenated in invocation order, are
\* the group's image files in their original order, each exactly once.
C1_BatchesReproduceGroup ==
  GroupComplete => Flatten(CallsOf(groupNo)) = ImageFilesOf(group)

C1_Witness ==
  /\ GroupComplete
  /\ Len(CallsOf(groupNo)) >= 2
  /\ Len(ImageFilesOf(group)) >= 2

\* C2: every batch passed to the remote action sums to at most
\* max_request_size bytes, unless it is exactly one file that alone exceeds
\* max_request_size.
C2_BatchWithinBudget ==
  \A i \in 1..Len(calls) :
    \/ BatchSize(calls[i].files) <= max_request_size
    \/ Len(calls[i].files) = 1 /\ BatchSize(calls[i].files) > max_request_size

C2_Witness ==
  /\ \E i \in 1..Len(calls) :
       Len(calls[i].files) = 1 /\ BatchSize(calls[i].files) > max_request_size
  /\ \E i \in 1..Len(calls) :
       Len(calls[i].files) = 1 /\ BatchSize(calls[i].files) = max_request_size

\* C3: with no name override, every image file is sent under the name of
\* its own parent folder.
C3_SentUnderParentFolderName ==
  override = NoName =>
    \A i \in 1..Len(calls) : \A j \in 1..Len(calls[i].files) :
      calls[i].name = NameStr(file_name(parent(calls[i].files[j])))

\* C4: after every merge the accumulated result has
\* total_count = success_count + failure_count + missed_count.
C4_TotalIsSumOfOutcomes ==
  state.total_count = state.success_count + state.failure_count + state.missed_count

C4_Witness ==
  /\ Len(partials) >= 2 /\ pc # "merge"
  /\ state.failure_count > 0 /\ state.missed_count > 0

\* the sum of a sequence of partial results, field by field
SumOfPartials(ps) ==
  [total_count |-> SumSeq([i \in 1..Len(ps) |-> ps[i].total_count]),
   success_count |-> SumSeq([i \in 1..Len(ps) |-> ps[i].success_count]),
   failure_count |-> SumSeq([i \in 1..Len(ps) |-> ps[i].failure_count]),
   failure_faces |-> Flatten([i \in 1..Len(ps) |-> ps[i].failure_faces]),
   missed_count |-> SumSeq([i \in 1..Len(ps) |-> ps[i].missed_count]),
   missed_faces |-> Flatten([i \in 1..Len(ps) |-> ps[i].missed_faces]),
   context |-> dataset_path]

\* the events the closures of train / recognize sent, in order
PipelineReports == SelectSeq(sentLog, LAMBDA s : s.by = "closure")

\* C5: after each completed batch the pipeline emits exactly one
\* AccumulatedStructedMessage, and it carries the sum of the partial results
\* of all batches completed so far.
C5_OneReportPerBatchWithRunningSum ==
  /\ Len(PipelineReports) = Len(partials) - (IF pc = "merge" THEN 1 ELSE 0)
  /\ \A i \in 1..Len(PipelineReports) :
       /\ PipelineReports[i].ev.type = "AccumulatedStructedMessage"
       /\ PipelineReports[i].ev.result = SumOfPartials(SubSeq(partials, 1, i))
  /\ \A i \in 1..Len(sentLog) :
       (sentLog[i].ev.type = "AccumulatedStructedMessage" /\ sentLog[i].by # "main")
         => sentLog[i].by = "closure"

C5_Witness ==
  /\ Len(PipelineReports) >= 2
  /\ partials[1].total_count > 0 /\ partials[2].missed_count > 0

\* every event sent so far, on either channel, in emission order
AllSent == [i \in 1..Len(sentLog) |-> sentLog[i].ev]

\* C6: every progress event the pipeline task emitted is received by the
\* reporting task, in emission order: what is received is always a prefix of
\* what was sent, and all of it once both tasks have ended with Ok.
C6_EveryEventReceivedInOrder ==
  /\ Len(recvLog) <= Len(AllSent) /\ recvLog = SubSeq(AllSent, 1, Len(recvLog))
  /\ (longStatus = "Ok" /\ reportStatus = "Ok") => recvLog = AllSent

\* C7: on a run in which every remote call returned Ok, the reporting task
\* has received the final accumulated result and then FinishWithMessage with
\* the totals when it terminates.
C7_FinalResultThenFinishReceived ==
  (longStatus = "Ok" /\ reportStatus = "Ok") =>
    /\ Len(recvLog) >= 2
    /\ recvLog[Len(recvLog) - 1] = AccumulatedStructedMessage(result)
    /\ recvLog[Len(recvLog)] = FinishWithMessage(result)

\* C8: FinishWithMessage is terminal: nothing is sent on a channel after a
\* FinishWithMessage was sent on it, and a run sends at most one.
C8_FinishIsTerminal ==
  /\ \A i \in 1..Len(sentLog) :
       sentLog[i].ev.type = "FinishWithMessage" =>
         \A j \in (i + 1)..Len(sentLog) : sentLog[j].chan # sentLog[i].chan
  /\ Cardinality({i \in 1..Len(sentLog) : sentLog[i].ev.type = "FinishWithMessage"}) <= 1

C8_Witness ==
  /\ longStatus = "Ok" /\ Len(partials) >= 1
  /\ sentLog[Len(sentLog)].ev.type = "FinishWithMessage"

\* C9: when the pipeline task or the reporting task failed, main returns an
\* error outcome.
C9_FailureIsReported ==
  (mainPc = "returned" /\ (longStatus \in {"Err", "Panic"} \/ joinResult = "Err"))
    => mainResult = "Err"

\* the events sent on channel c, in emission order
SentOn(c) ==
  LET ss == SelectSeq(sentLog, LAMBDA s : s.chan = c) IN [i \in 1..Len(ss) |-> ss[i].ev]

\* C10: when a remote call returned an error and the pipeline task ended,
\* the reporting task has received every event sent before the failure and
\* has exited by the time the run ends.
\* the pipeline task ended inside a remote call, with the call's error
FailedInRemoteCall == longStatus = "Err" /\ callIdx <= Len(callFiles)

C10_DrainedBeforeRunEnds ==
  (mainPc = "returned" /\ FailedInRemoteCall)
    => (reportStatus = "Ok" /\ recvLog = SentOn(ReportChan))

\* the Increase(1) events the remote calls have sent so far
ApiTicks == Len(SelectSeq(sentLog, LAMBDA s : s.by = "api"))

\* the number of files handed to the remote calls made so far
FilesInCalls == SumSeq([i \in 1..Len(calls) |-> Len(calls[i].files)])

\* every remote call made so far has returned Ok
AllCallsReturned == Len(partials) = Len(calls)

\* C11: in train mode, once every call of send_to_train has returned Ok, the
\* number of Increase(1) events the calls sent equals the number of files in
\* their batches, whatever the outcome of each file.
C11_OneTickPerTrainedFile ==
  (mode = "Train" /\ AllCallsReturned) => ApiTicks = FilesInCalls

\* C12: in recognize mode, once every call of recognize has returned Ok, the
\* number of Increase(1) events the calls sent equals the number of files in
\* their batches, whatever the outcome of each file (match, no match,
\* transport failure, parse failure).
C12_OneTickPerRecognizedFile ==
  (mode = "Recognize" /\ AllCallsReturned) => ApiTicks = FilesInCalls

\* a recognize run whose returned calls met a missed file (transport or
\* parse failure) and a file that got an answer
C12_Witness ==
  /\ mode = "Recognize" /\ AllCallsReturned
  /\ \E i \in 1..Len(partials) : partials[i].missed_count > 0
  /\ \E i \in 1..Len(partials) :
       partials[i].failure_count + partials[i].success_count > 0

\* the sum of the lengths announced by IncreaseLength events so far
AnnouncedLength ==
  LET ls == SelectSeq(sentLog, LAMBDA s : s.ev.type = "IncreaseLength")
  IN SumSeq([i \in 1..Len(ls) |-> ls[i].ev.n])

\* C13: when the pipeline has completed, the sum of all IncreaseLength(n)
\* events equals the number of image files sent to the remote action;
\* non-image files add nothing to the announced length.
C13_AnnouncedLengthIsFilesSent ==
  longStatus = "Ok" => AnnouncedLength = FilesInCalls

\* C14: when a recognize-mode run with error behaviour Copy or Move has
\* completed its pipeline and main has returned, write_failures has been
\* executed (to its end) on the final aggregated result.
C14_TriageRunsAfterRecognize ==
  (mode = "Recognize" /\ error_behavior \in {"Copy", "Move"}
     /\ longStatus = "Ok" /\ mainPc = "returned")
    => triagePc = "done"

(* ------------------------------- triage ------------------------------- *)
\* write_all_failure_faces is inside its loop
InFacesLoop == triagePc \in {"person_folder", "original_name", "target_files", "place"}

\* the loop of write_all_failure_faces has completed the body for face i
FacePlaced(i) ==
  IF InFacesLoop THEN i < faceIdx
  ELSE \/ triagePc \in {"missing_faces", "missed_folder", "missed_place"}
       \/ triagePc = "done" /\ error_behavior # "Ignore"

\* target_files has just been computed for a recognize failure
TargetsComputed(strategy) ==
  /\ triagePc = "place" /\ post_recognize_strategy = strategy
  /\ failure_face.tag = "Recognize"

\* the file first read from src is at path p
HoldsFile(p, src) == [path |-> p, content |-> src] \in fs.files

\* the first candidate whose similarity no other candidate exceeds
FirstMaximum(subjects) ==
  CHOOSE i \in 1..Len(subjects) :
    /\ \A j \in 1..Len(subjects) : subjects[j].similarity <= subjects[i].similarity
    /\ \A j \in 1..(i - 1) : subjects[j].similarity < subjects[i].similarity

\* C15: under MaxSimilarity, for a failure with a non-empty candidate list,
\* exactly one destination is computed and it is named after the first
\* candidate of maximal similarity.
C15_MaxSimilarityPicksFirstMaximum ==
  (TargetsComputed("MaxSimilarity") /\ failure_face.subjects # <<>>)
    => /\ Len(target_files) = 1
       /\ target_files[1] # <<>>
       /\ file_name(target_files[1])
            = Comp(failure_face.subjects[FirstMaximum(failure_face.subjects)].name)

\* C16: under AboveThreshold the destinations computed for a failure are the
\* candidates whose similarity is strictly above the threshold, one
\* destination each, and once the file is placed it is at each of them.
C16_AboveThresholdDestinations ==
  /\ TargetsComputed("AboveThreshold")
       => LET sel == above(failure_face.subjects, above_threshold) IN
            target_files = [i \in 1..Len(sel) |-> join(FacesFolder, Comp(sel[i].name))]
  /\ \A i \in 1..Len(result.failure_faces) :
       LET face == result.failure_faces[i]
           sel == above(face.subjects, above_threshold)
           folder == person_folder(sub_folder("failure_faces"), face.path) IN
       (post_recognize_strategy = "AboveThreshold" /\ face.tag = "Recognize" /\ FacePlaced(i))
         => \A k \in 1..Len(sel) : HoldsFile(join(folder, Comp(sel[k].name)), face.path)

\* C17: under AboveThreshold, a failure none of whose candidates is above
\* the threshold gets zero destinations and its triage does not end in an
\* error, under Copy and under Move.
C17_NoneAboveThresholdIsEmpty ==
  (TargetsComputed("AboveThreshold")
     /\ above(failure_face.subjects, above_threshold) = <<>>)
    => (target_files = <<>> /\ triageStatus = "running")

\* the candidate list has a single candidate of maximal similarity
HasUniqueBest(subjects) ==
  /\ subjects # <<>>
  /\ \A j \in 1..Len(subjects) :
       j # FirstMaximum(subjects)
         => subjects[j].similarity < subjects[FirstMaximum(subjects)].similarity

\* C18: under Move and MaxSimilarity, once a failure whose best candidate is
\* S has been placed, its source is gone and the file is at
\* <output root>/failure_faces/S/<original file name>.
C18_MovedUnderBestCandidate ==
  \A i \in 1..Len(result.failure_faces) :
    LET face == result.failure_faces[i] IN
    (error_behavior = "Move" /\ post_recognize_strategy = "MaxSimilarity"
       /\ face.tag = "Recognize" /\ HasUniqueBest(face.subjects) /\ FacePlaced(i))
      => /\ face.path \notin FilePaths(fs)
         /\ HoldsFile(join(join(sub_folder("failure_faces"),
                                Comp(face.subjects[FirstMaximum(face.subjects)].name)),
                           file_name(face.path)),
                      face.path)

\* the base name <original file name>.original_name
SentinelName(p) == [stem |-> NameStr(file_name(p)), ext |-> "original_name"]

\* C19: creating the sentinel never fails once the subject folder has been
\* created, and for every failure that has been placed an empty regular file
\* named <original file name>.original_name lies in a folder of the output
\* tree.
C19_SentinelBesidePlacedFile ==
  /\ triagePc = "original_name" => triageStatus # "Err"
  /\ \A i \in 1..Len(result.failure_faces) :
       FacePlaced(i)
         => \E x \in fs.files :
              /\ x.content = <<>>
              /\ file_name(x.path) = SentinelName(result.failure_faces[i].path)
              /\ IsDir(fs, parent(x.path))

\* the destinations the strategy gives a failure: every candidate above the
\* threshold under AboveThreshold, the single computed target otherwise
Destinations(face) ==
  LET folder == person_folder(sub_folder("failure_faces"), face.path) IN
  IF face.tag = "Recognize" /\ post_recognize_strategy = "AboveThreshold"
  THEN LET sel == above(face.subjects, above_threshold) IN
         {join(folder, Comp(sel[k].name)) : k \in 1..Len(sel)}
  ELSE LET t == TargetFiles(face, post_recognize_strategy, above_threshold, folder) IN
         {t.files[k] : k \in 1..Len(t.files)}

\* C20: in every state of a triage, the source of a failure still exists or
\* the file is at every one of its destinations; under Copy the source
\* always still exists.
C20_SourceKeptUntilPlacedEverywhere ==
  \A i \in 1..Len(result.failure_faces) :
    LET face == result.failure_faces[i] IN
    /\ output_dir.some
         => \/ face.path \in FilePaths(fs)
            \/ \A d \in Destinations(face) : HoldsFile(d, face.path)
    /\ error_behavior = "Copy" => face.path \in FilePaths(fs)

\* write_failures has ended, with Ok or with an error
TriageEnded == triageStatus # "running"

\* write_all_missing_faces itself ended with an error
FailedInMissingFaces ==
  triageStatus # "Ok" /\ triagePc \in {"missing_faces", "missed_folder", "missed_place"}

\* <output root>/missed_faces/<original subject folder name>/<file name>
MissedPlaceOf(p) ==
  join(person_folder(sub_folder("missed_faces"), p), file_name(p))

\* C21: whatever the post-recognize strategy, a triage under Copy or Move
\* that has ended, without an error of the missed-file placement itself,
\* has left every missed file at
\* <output root>/missed_faces/<subject folder name>/<file name>; so two
\* triages that differ only in the strategy leave it in the same place.
C21_MissedPlacedWhateverStrategy ==
  (TriageEnded /\ error_behavior \in {"Copy", "Move"} /\ output_dir.some
     /\ ~FailedInMissingFaces)
    => \A i \in 1..Len(result.missed_faces) :
         HoldsFile(MissedPlaceOf(result.missed_faces[i]), result.missed_faces[i])

(* ------------------------------- library ------------------------------ *)
\* the library function f has returned
Returned(f) == call.fn = f /\ returned.done

\* the characters after the last dot of a name that has characters before
\* that dot spell jpg, jpeg or png in lower case
HasImageExtension(cs) ==
  \E k \in 2..Len(cs) :
    /\ cs[k] = "." /\ \A j \in (k + 1)..Len(cs) : cs[j] # "."
    /\ SubSeq(cs, k + 1, Len(cs)) \in {<<"j", "p", "g">>, <<"j", "p", "e", "g">>, <<"p", "n", "g">>}

\* C22: is_image returns true exactly for the names whose extension is jpg,
\* jpeg or png in lower case, and false for every other name: another
\* extension, an upper-case variant, no extension.
C22_IsImageExactlyLowerCaseImageExtensions ==
  Returned("is_image") => (returned.val <=> HasImageExtension(call.input))

\* is_image has answered true for a .png name, false for a .JPG name, false
\* for a .txt name or false for a name without extension
C22_Witness ==
  /\ Returned("is_image")
  /\ \/ call.input = <<"a", ".", "p", "n", "g">> /\ returned.val
     \/ call.input = <<"a", ".", "J", "P", "G">> /\ ~returned.val

\* the whole base name of the last component of a path
BaseName(p) == NameStr(file_name(p))

\* C23: the name of a group is the override when one is configured;
\* otherwise it is an error for an empty group ("empty group") and for a
\* group led by an I/O error, the base name of the first entry when that is
\* a directory marker, and the base name of its parent directory when it is
\* a file.
C23_GroupNamedAfterFirstEntry ==
  Returned("group_name") =>
    LET g == call.input.group IN
    IF call.input.override # NoName
    THEN returned.ok /\ returned.val = call.input.override
    ELSE IF g = <<>> THEN ~returned.ok /\ returned.val = "empty group"
    ELSE IF g[1].kind = "err" THEN ~returned.ok
    ELSE IF g[1].kind = "dir" THEN returned.ok /\ returned.val = BaseName(g[1].path)
    ELSE Len(g[1].path) >= 2 => (returned.ok /\ returned.val = BaseName(parent(g[1].path)))

\* s is an initial segment of t
IsPrefix(s, t) == Len(s) <= Len(t) /\ s = SubSeq(t, 1, Len(s))

\* C24: the groups emitted so far, concatenated in emission order and
\* followed by the pending buffer, are an initial segment of the entries the
\* stream has yielded, and are all of them once the stream has ended; every
\* emitted group is non-empty and holds a directory marker at most at its
\* first position.
C24_GroupsReproduceEntries ==
  /\ IsPrefix(Flatten(groups) \o buffer, seen)
  /\ streamEnded => Flatten(groups) = seen
  /\ \A i \in 1..Len(groups) :
       /\ groups[i] # <<>>
       /\ \A j \in 2..Len(groups[i]) : groups[i][j].kind # "dir"

\* the stream has ended after two groups, the second opened by the marker
\* that closed the first
C24_Witness ==
  /\ streamEnded /\ Len(groups) = 2
  /\ groups[2][1].kind = "dir" /\ Len(seen) = MaxEntries

\* the four counts of a result
Counts(r) == <<r.total_count, r.success_count, r.failure_count, r.missed_count>>

\* C25: merging three partial results into an empty accumulator one by one
\* gives the same counts and the same lists as merging them under any other
\* grouping, and the accumulated failure and missed lists are the partial
\* lists concatenated in merge order.
C25_AddAssociativeAndOrderPreserving ==
  Returned("add") =>
    LET a == call.input[1]
        b == call.input[2]
        c == call.input[3]
        empty == with_context(dataset_path)
        r == returned.val
        right == Add(empty, Add(a, Add(b, c)))
        middle == Add(Add(empty, a), Add(b, c))
    IN /\ Counts(r) = Counts(right) /\ Counts(r) = Counts(middle)
       /\ r.failure_faces = right.failure_faces /\ r.failure_faces = middle.failure_faces
       /\ r.missed_faces = right.missed_faces /\ r.missed_faces = middle.missed_faces
       /\ r.failure_faces = a.failure_faces \o b.failure_faces \o c.failure_faces
       /\ r.missed_faces = a.missed_faces \o b.missed_faces \o c.missed_faces
       /\ r.total_count = a.total_count + b.total_count + c.total_count
       /\ r.total_count = r.success_count + r.failure_count + r.missed_count

\* three partial results that each hold a success, a failure and a missed
\* file have been merged
C25_Witness ==
  /\ Returned("add")
  /\ \A i \in 1..3 : /\ call.input[i].success_count > 0
                     /\ call.input[i].failure_faces # <<>>
                     /\ call.input[i].missed_faces # <<>>
  /\ Len(returned.val.failure_faces) = 3

\* C26: the remote action is never invoked with an empty file list, also
\* when the first image of a group is larger than max_request_size.
C26_NoEmptyInvocation ==
  \A i \in 1..Len(calls) : calls[i].files # <<>>

\* C27: batches are cut greedily with a strict comparison: an invocation
\* followed by another one for the same group holds files that, together
\* with the first file of the next invocation, exceed max_request_size, and
\* a batch of several files never exceeds max_request_size, so files that
\* sum exactly to the budget stay in one batch.
C27_GreedyStrictBoundaries ==
  /\ \A i \in 1..Len(calls) :
       Len(calls[i].files) > 1 => BatchSize(calls[i].files) <= max_request_size
  /\ \A i \in 1..(Len(calls) - 1) :
       calls[i].grp = calls[i + 1].grp /\ calls[i + 1].files # <<>> =>
         BatchSize(calls[i].files) + SizeOf(calls[i + 1].files[1]) > max_request_size
  /\ pc = "loop" /\ files_content # <<>> =>
       /\ total_size = BatchSize(files_content)
       /\ Len(files_content) > 1 => total_size <= max_request_size

\* two files that sum exactly to the budget were sent in one invocation
C27_Witness ==
  \E i \in 1..Len(calls) :
    /\ Len(calls[i].files) = 2
    /\ BatchSize(calls[i].files) = max_request_size
    /\ SizeOf(calls[i].files[1]) > 0 /\ SizeOf(calls[i].files[2]) > 0

\* the events long_task sent after train / recognize returned
FinalReports == SelectSeq(sentLog, LAMBDA s : s.by = "main")

\* C28: when a remote call returns an error the pipeline stops there: the
\* failed batch is the last one sent, the accumulator is the sum of the
\* batches completed before it, and neither a report for the failed batch
\* nor the final AccumulatedStructedMessage and FinishWithMessage is sent.
C28_RemoteErrorStopsPipeline ==
  FailedInRemoteCall =>
    /\ pc = "done"
    /\ calls # <<>> /\ calls[Len(calls)].files = callFiles
    /\ Len(partials) = Len(calls) - 1
    /\ state = SumOfPartials(partials)
    /\ Len(PipelineReports) = Len(partials)
    /\ FinalReports = <<>>
    /\ \A i \in 1..Len(sentLog) : sentLog[i].ev.type # "FinishWithMessage"
    /\ result = NoResult

\* the second batch of a run failed after the first one was merged and
\* reported, and the run has ended
C28_Witness ==
  /\ FailedInRemoteCall
  /\ Len(calls) = 2 /\ Len(partials) = 1
  /\ partials[1].total_count > 0
  /\ mainPc = "returned"

\* write_all_failure_faces ended with an error while handling a failed file
FailedOnOneFace == triageStatus = "Err" /\ InFacesLoop

\* C29: an error while triaging one failed file is confined to that file:
\* the triage ends on such an error only when no other failed file and no
\* missed file is left to triage.
C29_TriageErrorConfinedToOneFile ==
  FailedOnOneFace =>
    /\ faceIdx = Len(result.failure_faces)
    /\ result.missed_faces = <<>>

\* failure i is a recognize failure without candidates, triaged under
\* MaxSimilarity
NoCandidates(i) ==
  /\ post_recognize_strategy = "MaxSimilarity"
  /\ result.failure_faces[i].tag = "Recognize"
  /\ result.failure_faces[i].subjects = <<>>

\* C30: under MaxSimilarity the triage of a recognize failure with an empty
\* candidate list ends with an error: the loop never gets to placing the
\* file nor goes on to the next one, a triage that has ended while handling
\* it has ended with Err, and the source file stays where it was.
C30_NoCandidatesEndsInError ==
  \A i \in 1..Len(result.failure_faces) :
    NoCandidates(i) =>
      /\ HoldsFile(result.failure_faces[i].path, result.failure_faces[i].path)
      /\ ~FacePlaced(i)
      /\ (InFacesLoop /\ faceIdx = i) =>
           /\ triagePc # "place"
           /\ TriageEnded => triageStatus = "Err"
      /\ (TriageEnded /\ error_behavior # "Ignore") => triageStatus # "Ok"

\* the triage has reached the bail! for a failure without candidates
C30_Witness ==
  /\ InFacesLoop /\ NoCandidates(faceIdx)
  /\ triagePc = "target_files" /\ triageStatus = "Err"
  /\ FilePaths(fs) \cap {join(FacesFolder, Comp("A")), join(FacesFolder, Comp("B")),
                         join(FacesFolder, Comp("C")),
                         join(FacesFolder, file_name(failure_face.path))} = {}

\* the pipeline task ended for another reason than the return of a remote
\* call: an error of the directory stream or of a file's metadata, or a panic
EndedOutsideRemoteCall ==
  longStatus \notin {"running", "Ok"} /\ ~FailedInRemoteCall

\* the pipeline task has finished and dropped its senders, and the reporting
\* loop has left through the closed channel with every event sent on the
\* channel it reads received
Drained ==
  /\ longStatus # "running"
  /\ reportStatus = "Ok"
  /\ chan[ReportChan] = <<>>
  /\ recvLog = SentOn(ReportChan)

\* C31: in either mode, when every remote call returns, the run ends with
\* the pipeline task finished, its senders dropped, and the reporting loop
\* terminated after draining the buffered events.
C31_TerminatesAfterDraining ==
  (<>EndedOutsideRemoteCall) \/ <>[]Drained

\* the counts of failures and of missed files are the lengths of the lists
\* (so a count is positive exactly when its list is not empty)
CountsMatchLists(r) ==
  /\ r.failure_count = Len(r.failure_faces)
  /\ r.missed_count = Len(r.missed_faces)
  /\ (r.failure_count > 0) = (r.failure_faces # <<>>)
  /\ (r.missed_count > 0) = (r.missed_faces # <<>>)

\* C32: in every partial result a remote call returned, in the accumulator,
\* in every accumulated report and in the final result, failure_count is the
\* length of failure_faces and missed_count the length of missed_faces.
C32_CountsAreListLengths ==
  /\ \A i \in 1..Len(partials) : CountsMatchLists(partials[i])
  /\ CountsMatchLists(partial)
  /\ CountsMatchLists(state)
  /\ CountsMatchLists(result)
  /\ \A i \in 1..Len(sentLog) :
       sentLog[i].ev.type = "AccumulatedStructedMessage"
         => CountsMatchLists(sentLog[i].ev.result)

\* a run ended Ok with two batches merged, holding a failure and a missed file
C32_Witness ==
  /\ longStatus = "Ok" /\ result = state
  /\ Len(partials) = 2
  /\ result.failure_count = 1 /\ result.missed_count = 1
  /\ \E i \in 1..2 : partials[i].missed_count = 1

\* the sum of the n of the events of one type among the events received
ReceivedSum(type) ==
  SumSeq([i \in 1..Len(recvLog) |-> IF recvLog[i].type = type THEN recvLog[i].n ELSE 0])

\* C33: at every point of a run the progress position of the reporting task
\* is at most its progress length: the Increase(n) received so far sum to at
\* most the IncreaseLength(n) received so far.
C33_PositionWithinLength ==
  /\ bars.pos = ReceivedSum("Increase")
  /\ bars.len = ReceivedSum("IncreaseLength")
  /\ ReceivedSum("Increase") <= ReceivedSum("IncreaseLength")

====
